---- MODULE Spec2Model ----
(***************************************************************************)
(* AR Space Invaders: the frame loop (GameManager), the two AlienGrid      *)
(* variants (boundary-based and cycle-counted), the ShootingSystem and the *)
(* HUD counters.                                                           *)
(*                                                                         *)
(* Lengths are fixed-point integers, 10000 per world unit (0.02 is 200);   *)
(* products with a fractional factor are rounded down.  Times are ms.      *)
(* speedMultiplier is kept in hundredths (1.15 is 115).                    *)
(* The per-entity wobble (rotation.z and the +-0.05 bounce added to        *)
(* originalY) is left out of the positions.                                *)
(* The grid this.aliens is kept as its row count (aliensLength) and the    *)
(* set of cells whose userData.isAlive is false (dead); an entity's points *)
(* and originalY are functions of its row (and of dropCount, see           *)
(* originalY).                                                             *)
(***************************************************************************)
EXTENDS Integers, Sequences, FiniteSets, TLC

VARIABLES
    variant,          \* which AlienGrid file is built: "boundary" or "cycle"
    audio,            \* outcome of soundManager.init(): "none" before the call
    now,              \* Date.now()
    clock,            \* THREE.Clock: the time of its last start() / getDelta()
    visible,          \* GameScreens: the screens that are not hidden
    starting,         \* a startGame() call is suspended at its awaits
    state,            \* GameManager.state: isPlaying, wave, aliensKilled
    alienGrid,        \* AlienGrid fields
    shootingSystem,   \* ShootingSystem: lastShotTime, projectiles
    hud,              \* HUD: targetScore, currentLives, comboCount, comboTimer, ...
    spawnTimers,      \* pending setTimeout callbacks of onWaveComplete, in order
    gameOverTimer,    \* pending setTimeout of showGameOver (due time, 0 = none)
    rafPending,       \* pending requestAnimationFrame(gameLoop) callbacks
    shownStats,       \* the stats object last passed to showGameOver
    cues,             \* soundManager.play calls of the last handler
    hits,             \* the list ShootingSystem.update returned in the last handler
    lastUpdate,       \* what AlienGrid.update did in the last handler
    lastSpawn,        \* who made the last GameManager.spawnWave call
    lastShot,         \* the last shoot() call: its result and its time
    session,          \* number of games started (startGame success / restartGame)
    shots             \* number of successful shoot() calls

vars == <<variant, audio, now, clock, visible, starting, state, alienGrid, shootingSystem,
          hud, spawnTimers, gameOverTimer, rafPending, shownStats, cues, hits,
          lastUpdate, lastSpawn, lastShot, session, shots>>

-----------------------------------------------------------------------------
(* Bounds of the model *)

FrameMs == 50       \* time between two display frames
MaxNow == 2300      \* frames and clicks stop at this time
MaxShots == 2       \* successful shots per run
MidGameFrames == 12 \* frames left before MaxNow in a mid-game snapshot
MaxWaveChecked == 3 \* wave numbers spawnWave is applied with
MaxLiveNow == 800000 \* clock bound of the run without fire inputs
MaxComboChecked == 8 \* combo counts addScore is applied with

-----------------------------------------------------------------------------
(* Program constants *)

rows == 5
cols == 11
boundaryX == 50000
horizontalLimit == 100000
maxDrops == 10
fullCount == 55
cooldown == 200
projectileSpeed == 5000
projectileLifetime == 2000
hitRadius == 5000
comboTimeout == 2000
maxLives == 3
spawnDelay == 1500
gameOverDelay == 500
maxCombo == 5
cameraZ == 50000

Unit == 10000 \* fixed-point scale: one world unit

groundY == 0 - 3 * Unit

spacingX == IF variant = "cycle" THEN 24000 ELSE 12000
spacingY == IF variant = "cycle" THEN 16000 ELSE 8000
startY == IF variant = "cycle" THEN 60000 ELSE 30000
startZ == IF variant = "cycle" THEN 0 - 150000 ELSE 0 - 80000
initialDirection == IF variant = "cycle" THEN 0 - 1 ELSE 1
baseSpeed == IF variant = "cycle" THEN 200 ELSE 150
dropDistance == IF variant = "cycle" THEN 10000 ELSE 3000

\* the camera's forward directions that fire inputs are drawn from
Aims == { <<0, 0, 0 - 10000>> }

ClickDelays == {0, cooldown}

Abs(n) == IF n < 0 THEN 0 - n ELSE n
MinOf(S) == CHOOSE m \in S : \A n \in S : m <= n
MaxOf(S) == CHOOSE m \in S : \A n \in S : n <= m

NoGroup == [isNull |-> TRUE, x |-> 0, y |-> 0]

-----------------------------------------------------------------------------
(* AlienFactory / AlienGrid *)

alienTypeShifted(row) == IF row <= 1 THEN 3 ELSE IF row <= 3 THEN 2 ELSE 1

alienTypeOfRow(row) == IF row = 0 THEN 3 ELSE IF row <= 2 THEN 2 ELSE 1

\* createAlien: userData.points = type * 10, userData.isAlive = true
pointsOf(c) == alienTypeOfRow(c[1]) * 10

GridCells(g) == (0 .. g.aliensLength - 1) \X (0 .. cols - 1)
isAlive(g, c) == c \in GridCells(g) /\ c \notin g.dead

getAliveCells(g) == {c \in GridCells(g) : c \notin g.dead}
getAliveCount(g) == Cardinality(getAliveCells(g))
isWaveClearedEarly(g) == getAliveCount(g) <= 1
isWaveCleared(g) == getAliveCount(g) = 0

\* getAliveAliens: row-major order
CellAt(k) == <<(k - 1) \div cols, (k - 1) % cols>>
getAliveAliens(g) ==
    SelectSeq([k \in 1 .. g.aliensLength * cols |-> CellAt(k)],
              LAMBDA c : isAlive(g, c))

\* userData.originalY of a live entity: set at spawn; the cycle variant lowers
\* it by dropDistance for every live entity on each descent, dropCount times
\* since the spawn (clear() resets dropCount and discards the entities)
originalY(g, c) ==
    startY - c[1] * spacingY
      - (IF variant = "cycle" THEN g.dropCount * dropDistance ELSE 0)

offsetX == 0 - ((cols - 1) * spacingX) \div 2
WorldX(g, c) == g.group.x + offsetX + c[2] * spacingX
WorldY(g, c) == g.group.y + originalY(g, c)

ConstructedGrid ==
    [aliensLength |-> 0, dead |-> {}, group |-> NoGroup, direction |-> initialDirection,
     moveSpeed |-> baseSpeed, speedMultiplier |-> 100,
     currentHorizontalPosition |-> 0, dropCount |-> 0]

clearFlipsDirection(g) ==
    [g EXCEPT !.aliensLength = 0, !.dead = {}, !.group = NoGroup,
              !.direction = 0 - @, !.moveSpeed = baseSpeed,
              !.currentHorizontalPosition = 0, !.dropCount = 0]

clearKeepsDropCount(g) ==
    [g EXCEPT !.aliensLength = 0, !.dead = {}, !.group = NoGroup,
              !.direction = initialDirection, !.moveSpeed = baseSpeed,
              !.currentHorizontalPosition = 0]

clear(g) ==
    [g EXCEPT !.aliensLength = 0, !.dead = {}, !.group = NoGroup,
              !.direction = initialDirection, !.moveSpeed = baseSpeed,
              !.currentHorizontalPosition = 0, !.dropCount = 0]

waveSpeedMultiplier(wave) == 100 + (wave - 1) * 15

spawnWaveNoClear(g, wave) ==
    LET sm == waveSpeedMultiplier(wave)
    IN [g EXCEPT
          !.group = [isNull |-> FALSE, x |-> 0, y |-> 0],
          !.speedMultiplier = sm,
          !.moveSpeed = (baseSpeed * sm) \div 100,
          !.aliensLength = rows,
          !.dead = {}]

spawnWave(g, wave) ==
    LET c0 == clear(g)
        sm == waveSpeedMultiplier(wave)
    IN [c0 EXCEPT
          !.group = [isNull |-> FALSE, x |-> 0, y |-> 0],
          !.speedMultiplier = sm,
          !.moveSpeed = (baseSpeed * sm) \div 100,
          !.aliensLength = rows,
          !.dead = {}]

NoUpdate ==
    [called |-> FALSE, deltaTime |-> 0, existed |-> FALSE, reversed |-> FALSE, hitGround |-> FALSE,
     dropBefore |-> 0, dirBefore |-> 0, dirAfter |-> 0, yBefore |-> 0, yAfter |-> 0,
     speedBefore |-> 0, speedAfter |-> 0, xBefore |-> 0, xAfter |-> 0]

UpdateResult(g0, g1, rev, ground) ==
    [grid |-> g1,
     hitGround |-> ground,
     info |-> [called |-> TRUE, deltaTime |-> 0, reversed |-> rev, hitGround |-> ground,
               existed |-> ~g0.group.isNull /\ g0.aliensLength # 0,
               dropBefore |-> g0.dropCount,
               dirBefore |-> g0.direction, dirAfter |-> g1.direction,
               yBefore |-> g0.group.y, yAfter |-> g1.group.y,
               speedBefore |-> g0.moveSpeed, speedAfter |-> g1.moveSpeed,
               xBefore |-> g0.group.x, xAfter |-> g1.group.x]]

reversalSpeed(s) == (s * 102) \div 100

updateBoundary(g) ==
    IF g.group.isNull \/ g.aliensLength = 0
    THEN UpdateResult(g, g, FALSE, FALSE)
    ELSE
      LET alive == getAliveCells(g)
          some == alive # {}
          leftMost == MinOf({WorldX(g, c) : c \in alive})
          rightMost == MaxOf({WorldX(g, c) : c \in alive})
          lowestY == MinOf({WorldY(g, c) : c \in alive})
          needsToChangeDirection ==
              \/ some /\ rightMost >= boundaryX /\ g.direction = 1
              \/ some /\ leftMost <= 0 - boundaryX /\ g.direction = 0 - 1
          hitGround == some /\ lowestY <= groundY
          g1 == IF needsToChangeDirection
                THEN [g EXCEPT !.direction = 0 - @,
                               !.group.y = @ - dropDistance,
                               !.moveSpeed = reversalSpeed(@)]
                ELSE [g EXCEPT !.group.x = @ + g.direction * g.moveSpeed]
      IN UpdateResult(g, g1, needsToChangeDirection, hitGround)

updateCycleOneMore(g) ==
    IF g.group.isNull \/ g.aliensLength = 0
    THEN UpdateResult(g, g, FALSE, FALSE)
    ELSE IF g.dropCount > maxDrops
    THEN UpdateResult(g, g, FALSE, TRUE)
    ELSE
      LET movement == g.direction * g.moveSpeed
          moved == [g EXCEPT !.group.x = @ + movement,
                             !.currentHorizontalPosition = @ + movement]
          atLimit == Abs(moved.currentHorizontalPosition) >= horizontalLimit
          g1 == IF atLimit
                THEN [moved EXCEPT
                        !.direction = 0 - @,
                        !.group.y = @ - dropDistance,
                        !.dropCount = @ + 1,
                        !.currentHorizontalPosition = 0]
                ELSE moved
      IN UpdateResult(g, g1, atLimit, FALSE)

updateCycle(g) ==
    IF g.group.isNull \/ g.aliensLength = 0
    THEN UpdateResult(g, g, FALSE, FALSE)
    ELSE IF g.dropCount >= maxDrops
    THEN UpdateResult(g, g, FALSE, TRUE)
    ELSE
      LET movement == g.direction * g.moveSpeed
          moved == [g EXCEPT !.group.x = @ + movement,
                             !.currentHorizontalPosition = @ + movement]
          atLimit == Abs(moved.currentHorizontalPosition) >= horizontalLimit
          g1 == IF atLimit
                THEN [moved EXCEPT
                        !.direction = 0 - @,
                        !.group.y = @ - dropDistance,
                        !.dropCount = @ + 1,
                        !.currentHorizontalPosition = 0]
                ELSE moved
      IN UpdateResult(g, g1, atLimit, FALSE)

update(g) == IF variant = "cycle" THEN updateCycle(g) ELSE updateBoundary(g)

killSpeed(g, aliveCount) ==
    (baseSpeed * g.speedMultiplier * (100 + (fullCount - aliveCount) * 2)) \div 10000

destroyAlienRevives(g, c) ==
    IF ~isAlive(g, c)
    THEN [grid |-> [g EXCEPT !.dead = @ \ {c}], points |-> 0]
    ELSE LET g1 == [g EXCEPT !.dead = @ \cup {c}]
             aliveCount == getAliveCount(g1)
         IN [grid |-> IF aliveCount > 0
                      THEN [g1 EXCEPT !.moveSpeed = killSpeed(g1, aliveCount)]
                      ELSE g1,
             points |-> pointsOf(c)]

destroyAlienUnguarded(g, c) ==
    LET g1 == [g EXCEPT !.dead = @ \cup {c}]
        aliveCount == getAliveCount(g1)
    IN [grid |-> IF aliveCount > 0
                 THEN [g1 EXCEPT !.moveSpeed = killSpeed(g1, aliveCount)]
                 ELSE g1,
        points |-> pointsOf(c)]

destroyAlien(g, c) ==
    IF ~isAlive(g, c)
    THEN [grid |-> g, points |-> 0]
    ELSE LET g1 == [g EXCEPT !.dead = @ \cup {c}]
             aliveCount == getAliveCount(g1)
         IN [grid |-> IF aliveCount > 0
                      THEN [g1 EXCEPT !.moveSpeed = killSpeed(g1, aliveCount)]
                      ELSE g1,
             points |-> pointsOf(c)]

-----------------------------------------------------------------------------
(* ShootingSystem *)

ConstructedShooting == [lastShotTime |-> 0, projectiles |-> << >>]

cooldownBlocksNever(ss, t) == FALSE

cooldownBlocks(ss, t) == t - ss.lastShotTime < cooldown

newProjectile(dir, t) ==
    [x |-> (dir[1] * 5000) \div Unit,
     y |-> (dir[2] * 5000) \div Unit - 2000,
     z |-> cameraZ + (dir[3] * 5000) \div Unit,
     dir |-> dir, createdAt |-> t, isActive |-> TRUE]

shoot(ss, dir, t) ==
    IF cooldownBlocks(ss, t)
    THEN [ss |-> ss, result |-> FALSE]
    ELSE [ss |-> [ss EXCEPT !.lastShotTime = t,
                            !.projectiles = Append(@, newProjectile(dir, t))],
          result |-> TRUE]

removeProjectileFirst(projs, i) ==
    IF i \in 1 .. Len(projs) THEN Tail(projs) ELSE projs

removeProjectileKeeps(projs, i) == projs

removeProjectile(projs, i) ==
    IF i \in 1 .. Len(projs)
    THEN SubSeq(projs, 1, i - 1) \o SubSeq(projs, i + 1, Len(projs))
    ELSE projs

moveProjectile(p) ==
    [p EXCEPT !.x = @ + (p.dir[1] * projectileSpeed) \div Unit,
              !.y = @ + (p.dir[2] * projectileSpeed) \div Unit,
              !.z = @ + (p.dir[3] * projectileSpeed) \div Unit]

expired(p, t) == t - p.createdAt > projectileLifetime

collides(p, g, c) ==
    LET dx == p.x - WorldX(g, c)
        dy == p.y - WorldY(g, c)
        dz == p.z - startZ
    IN /\ Abs(dx) < hitRadius /\ Abs(dy) < hitRadius /\ Abs(dz) < hitRadius
       /\ dx * dx + dy * dy + dz * dz < hitRadius * hitRadius

\* index of the first target the projectile collides with, 0 if none
\* (every target has z = startZ, so a projectile outside that slab hits none)
firstHit(p, g, targets) ==
    IF Abs(p.z - startZ) >= hitRadius THEN 0
    ELSE LET idx == {k \in 1 .. Len(targets) :
                       isAlive(g, targets[k]) /\ collides(p, g, targets[k])}
         IN IF idx = {} THEN 0 ELSE MinOf(idx)

RECURSIVE shootingLoop(_, _, _, _, _, _)
shootingLoop(i, projs, hs, g, targets, t) ==
    IF i < 1 THEN [projectiles |-> projs, hits |-> hs]
    ELSE IF ~projs[i].isActive
    THEN shootingLoop(i - 1, projs, hs, g, targets, t)
    ELSE
      LET p == moveProjectile(projs[i])
          movedList == [projs EXCEPT ![i] = p]
          k == firstHit(p, g, targets)
      IN IF expired(p, t)
         THEN shootingLoop(i - 1, removeProjectile(movedList, i), hs, g, targets, t)
         ELSE IF k # 0
         THEN shootingLoop(i - 1, removeProjectile(movedList, i),
                           Append(hs, targets[k]), g, targets, t)
         ELSE shootingLoop(i - 1, movedList, hs, g, targets, t)

shootingUpdate(ss, g, targets, t) ==
    LET r == shootingLoop(Len(ss.projectiles), ss.projectiles, << >>, g, targets, t)
    IN [ss |-> [ss EXCEPT !.projectiles = r.projectiles], hits |-> r.hits]

shootingClear(ss) == [ss EXCEPT !.projectiles = << >>]

-----------------------------------------------------------------------------
(* HUD *)

ConstructedHud ==
    [targetScore |-> 0, currentWave |-> 1, currentLives |-> 3,
     comboCount |-> 0, comboTimer |-> 0, hidden |-> TRUE]

comboMultiplierUncapped(h) == h.comboCount

comboMultiplier(h) == IF h.comboCount < maxCombo THEN h.comboCount ELSE maxCombo

incrementCombo(h, t) ==
    [h EXCEPT !.comboCount = @ + 1, !.comboTimer = t + comboTimeout]

addScore(h, points, t) ==
    LET multiplier == comboMultiplier(h)
        finalPoints == points * (IF multiplier > 1 THEN multiplier ELSE 1)
    IN incrementCombo([h EXCEPT !.targetScore = @ + finalPoints], t)

resetCombo(h) == [h EXCEPT !.comboCount = 0]

loseLifeWithPenalty(h) ==
    IF h.currentLives > 0
    THEN [h EXCEPT !.currentLives = @ - 1, !.targetScore = @ - 10]
    ELSE h

loseLifeNever(h) == h

loseLifeUnguarded(h) == [h EXCEPT !.currentLives = @ - 1]

loseLife(h) ==
    IF h.currentLives > 0 THEN [h EXCEPT !.currentLives = @ - 1] ELSE h

hudResetKeepsLives(h) ==
    [h EXCEPT !.targetScore = 0, !.currentWave = 1, !.comboCount = 0]

hudReset(h) ==
    [h EXCEPT !.targetScore = 0, !.currentWave = 1,
              !.currentLives = maxLives, !.comboCount = 0]

-----------------------------------------------------------------------------
(* GameManager: each operator maps the whole game record to the record      *)
(* after the method has run.                                                *)

World ==
    [state |-> state, alienGrid |-> alienGrid, shootingSystem |-> shootingSystem,
     hud |-> hud, spawnTimers |-> spawnTimers, gameOverTimer |-> gameOverTimer,
     visible |-> visible, shownStats |-> shownStats, cues |-> << >>,
     hits |-> << >>, lastUpdate |-> NoUpdate, lastSpawn |-> lastSpawn,
     raf |-> 0, session |-> session, clock |-> clock]

Commit(w) ==
    /\ state' = w.state
    /\ alienGrid' = w.alienGrid
    /\ shootingSystem' = w.shootingSystem
    /\ hud' = w.hud
    /\ spawnTimers' = w.spawnTimers
    /\ gameOverTimer' = w.gameOverTimer
    /\ visible' = w.visible
    /\ shownStats' = w.shownStats
    /\ cues' = w.cues
    /\ hits' = w.hits
    /\ lastUpdate' = w.lastUpdate
    /\ lastSpawn' = w.lastSpawn
    /\ session' = w.session
    /\ clock' = w.clock

play(w, cue) == [w EXCEPT !.cues = Append(@, cue)]

gmSpawnWave(w, by) ==
    LET w1 == [w EXCEPT
                 !.alienGrid = spawnWave(@, w.state.wave),
                 !.hud.currentWave = w.state.wave,
                 !.lastSpawn = [by |-> by.by, scheduledIn |-> by.scheduledIn,
                                session |-> w.session, n |-> @.n + 1]]
    IN IF w.state.wave > 1 THEN play(w1, "waveComplete") ELSE w1

onAlienHit(w, c, t) ==
    LET d == destroyAlien(w.alienGrid, c)
        w1 == [w EXCEPT !.alienGrid = d.grid,
                        !.state.aliensKilled = @ + 1,
                        !.hud = addScore(@, d.points, t)]
    IN play(w1, "explosion")

gameOver(w, t) ==
    LET w1 == play([w EXCEPT !.state.isPlaying = FALSE], "gameOver")
    IN [w1 EXCEPT
          !.hud.hidden = TRUE,
          !.alienGrid = clear(@),
          !.shootingSystem = shootingClear(@),
          !.visible = {},
          !.shownStats = [score |-> w.hud.targetScore, wave |-> w.state.wave,
                          aliensKilled |-> w.state.aliensKilled],
          !.gameOverTimer = t + gameOverDelay]

onAlienHitGroundEarly(w, t) ==
    LET w1 == play([w EXCEPT !.hud = loseLife(@)], "hit")
    IN IF w1.hud.currentLives <= 1
       THEN gameOver(w1, t)
       ELSE gmSpawnWave([w1 EXCEPT !.alienGrid = clear(@)],
                        [by |-> "ground", scheduledIn |-> w.session])

onAlienHitGround(w, t) ==
    LET w1 == play([w EXCEPT !.hud = loseLife(@)], "hit")
    IN IF w1.hud.currentLives <= 0
       THEN gameOver(w1, t)
       ELSE gmSpawnWave([w1 EXCEPT !.alienGrid = clear(@)],
                        [by |-> "ground", scheduledIn |-> w.session])

onWaveComplete(w, t) ==
    [w EXCEPT !.state.wave = @ + 1,
              !.spawnTimers = Append(@, [due |-> t + spawnDelay,
                                         session |-> w.session])]

Reverse(q) == [i \in 1 .. Len(q) |-> q[Len(q) + 1 - i]]

RECURSIVE processHits(_, _, _)
processHits(w, hs, t) ==
    IF hs = << >> THEN w
    ELSE processHits(onAlienHit(w, Head(hs), t), Tail(hs), t)

gameLoop(w, t) ==
    IF ~w.state.isPlaying THEN w
    ELSE
      LET deltaTime == t - w.clock
          w0 == [w EXCEPT !.raf = @ + 1, !.clock = t]
          u == update(w0.alienGrid)
          w1 == [w0 EXCEPT !.alienGrid = u.grid,
                           !.lastUpdate = [u.info EXCEPT !.deltaTime = deltaTime]]
          w2 == IF u.hitGround THEN onAlienHitGround(w1, t) ELSE w1
          aliveAliens == getAliveAliens(w2.alienGrid)
          s == shootingUpdate(w2.shootingSystem, w2.alienGrid, aliveAliens, t)
          w3 == [w2 EXCEPT !.shootingSystem = s.ss, !.hits = s.hits]
          w4 == processHits(w3, s.hits, t)
      IN IF isWaveCleared(w4.alienGrid) THEN onWaveComplete(w4, t) ELSE w4

startGameBodyTwoLoops(w, t) ==
    LET w1 == [w EXCEPT !.visible = {},
                        !.hud = [hudReset(@) EXCEPT !.hidden = FALSE],
                        !.state = [isPlaying |-> TRUE, wave |-> 1, aliensKilled |-> 0],
                        !.session = @ + 1]
        w2 == gmSpawnWave(w1, [by |-> "start", scheduledIn |-> w1.session])
    IN gameLoop(gameLoop([w2 EXCEPT !.clock = t], t), t)

startGameBody(w, t) ==
    LET w1 == [w EXCEPT !.visible = {},
                        !.hud = [hudReset(@) EXCEPT !.hidden = FALSE],
                        !.state = [isPlaying |-> TRUE, wave |-> 1, aliensKilled |-> 0],
                        !.session = @ + 1]
        w2 == gmSpawnWave(w1, [by |-> "start", scheduledIn |-> w1.session])
    IN gameLoop([w2 EXCEPT !.clock = t], t)

restartGame(w) ==
    LET w1 == [w EXCEPT !.alienGrid = clear(@),
                        !.shootingSystem = shootingClear(@),
                        !.hud = [hudReset(@) EXCEPT !.hidden = FALSE],
                        !.state = [isPlaying |-> TRUE, wave |-> 1, aliensKilled |-> 0],
                        !.visible = {},
                        !.session = @ + 1]
    IN gmSpawnWave(w1, [by |-> "restart", scheduledIn |-> w1.session])

spawnTimeoutUnguarded(w, timer) ==
    gmSpawnWave(w, [by |-> "timeout", scheduledIn |-> timer.session])

spawnTimeout(w, timer) ==
    IF w.state.isPlaying
    THEN gmSpawnWave(w, [by |-> "timeout", scheduledIn |-> timer.session])
    ELSE w

handleClickAlwaysCue(w, dir, t) ==
    IF ~w.state.isPlaying THEN w
    ELSE play([w EXCEPT !.shootingSystem = shoot(@, dir, t).ss], "shoot")

\* handleTouch / handleClick: the camera looks along dir
handleClick(w, dir, t) ==
    IF ~w.state.isPlaying THEN w
    ELSE LET r == shoot(w.shootingSystem, dir, t)
             w1 == [w EXCEPT !.shootingSystem = r.ss]
         IN IF r.result THEN play(w1, "shoot") ELSE w1

RECURSIVE runFrameCallbacks(_, _, _)
runFrameCallbacks(n, w, t) ==
    IF n = 0 THEN w ELSE runFrameCallbacks(n - 1, gameLoop(w, t), t)

-----------------------------------------------------------------------------
(* Timers and the clock *)

PendingDues ==
    {spawnTimers[i].due : i \in 1 .. Len(spawnTimers)}
      \cup (IF gameOverTimer # 0 THEN {gameOverTimer} ELSE {})
      \cup (IF hud.comboTimer # 0 THEN {hud.comboTimer} ELSE {})

\* a handler may run d ms from now when no timer falls due before that moment
CanAdvance(d) ==
    /\ now + d <= MaxNow
    /\ d > 0 => \A due \in PendingDues : due >= now + d

\* a timer due at `due` may fire next when no frame comes before it
\* (after MaxNow the display delivers no more frames; timers still run)
TimerMayFire(due) ==
    /\ \A other \in PendingDues : due <= other
    /\ (rafPending > 0 /\ now + FrameMs <= MaxNow) => due <= now + FrameMs

Later(due) == IF due > now THEN due ELSE now

NoShot == [called |-> FALSE, result |-> FALSE, at |-> 0, lastShotTime |-> 0]

-----------------------------------------------------------------------------
(* Actions: one per event handler *)

InitCommon ==
    /\ variant \in {"boundary", "cycle"}
    /\ audio = "none"
    /\ now = cooldown
    /\ clock = 0
    /\ starting = FALSE
    /\ shootingSystem = ConstructedShooting
    /\ spawnTimers = << >>
    /\ gameOverTimer = 0
    /\ shownStats = [score |-> 0, wave |-> 0, aliensKilled |-> 0]
    /\ cues = << >>
    /\ hits = << >>
    /\ lastUpdate = NoUpdate
    /\ lastShot = NoShot
    /\ shots = 0

Init ==
    /\ InitCommon
    /\ visible = {"splash"}
    /\ state = [isPlaying |-> FALSE, wave |-> 1, aliensKilled |-> 0]
    /\ alienGrid = ConstructedGrid
    /\ hud = ConstructedHud
    /\ rafPending = 0
    /\ lastSpawn = [by |-> "none", scheduledIn |-> 0, session |-> 0, n |-> 0]
    /\ session = 0

\* click on the start button (splash) or the retry button (error screen)
StartClick ==
    /\ ~starting
    /\ ("splash" \in visible \/ "error" \in visible)
    /\ "loading" \notin visible
    /\ starting' = TRUE
    /\ visible' = visible \cup {"loading"}
    /\ cues' = << >>
    /\ lastShot' = NoShot
    /\ hits' = << >>
    /\ lastUpdate' = NoUpdate
    /\ UNCHANGED <<variant, audio, clock, now, state, alienGrid, shootingSystem, hud,
                   spawnTimers, gameOverTimer, rafPending, shownStats,
                   lastSpawn, session, shots>>

\* cameraManager.requestAccess() rejects: the catch block shows the error screen
StartFails ==
    /\ starting
    /\ starting' = FALSE
    /\ visible' = {"error"}
    /\ cues' = << >>
    /\ lastShot' = NoShot
    /\ hits' = << >>
    /\ lastUpdate' = NoUpdate
    /\ UNCHANGED <<variant, audio, clock, now, state, alienGrid, shootingSystem, hud,
                   spawnTimers, gameOverTimer, rafPending, shownStats,
                   lastSpawn, session, shots>>

\* both awaits return (soundManager.init() resolves to true or, having caught
\* its error, to false): the rest of startGame runs, gameLoop() included
StartSucceeds ==
    /\ starting
    /\ starting' = FALSE
    /\ \E w \in {startGameBody(World, now)} :
          /\ Commit(w)
          /\ rafPending' = rafPending + w.raf
    /\ \E ok \in BOOLEAN : audio' = IF ok THEN "ready" ELSE "failed"
    /\ lastShot' = NoShot
    /\ UNCHANGED <<variant, now, shots>>

\* a display frame: every pending gameLoop callback runs
FrameStep ==
    /\ now' = now + FrameMs
    /\ \E w \in {runFrameCallbacks(rafPending, World, now + FrameMs)} :
          /\ Commit(w)
          /\ rafPending' = w.raf
    /\ lastShot' = NoShot
    /\ UNCHANGED <<variant, audio, starting, shots>>

Frame ==
    /\ rafPending > 0
    /\ CanAdvance(FrameMs)
    /\ FrameStep

\* handleClick / handleTouch, d ms after the previous handler
Click ==
    \E d \in ClickDelays, dir \in Aims :
      /\ visible = {}
      /\ shots < MaxShots
      /\ CanAdvance(d)
      /\ now' = now + d
      /\ LET w == handleClick(World, dir, now + d)
         IN /\ shootingSystem' = w.shootingSystem
            /\ cues' = w.cues
      /\ IF ~state.isPlaying
         THEN /\ lastShot' = NoShot
              /\ UNCHANGED shots
         ELSE LET r == shoot(shootingSystem, dir, now + d)
              IN /\ lastShot' = [called |-> TRUE, result |-> r.result, at |-> now + d,
                                 lastShotTime |-> shootingSystem.lastShotTime]
                 /\ shots' = IF r.result THEN shots + 1 ELSE shots
      /\ hits' = << >>
      /\ lastUpdate' = NoUpdate
      /\ UNCHANGED <<variant, audio, clock, visible, starting, state, alienGrid, hud,
                     spawnTimers, gameOverTimer, rafPending, shownStats,
                     lastSpawn, session>>

\* the callback onWaveComplete scheduled
SpawnTimeout ==
    /\ spawnTimers # << >>
    /\ TimerMayFire(Head(spawnTimers).due)
    /\ now' = Later(Head(spawnTimers).due)
    /\ \E w \in {spawnTimeout([World EXCEPT !.spawnTimers = Tail(@)],
                              Head(spawnTimers))} :
          Commit(w)
    /\ lastShot' = NoShot
    /\ UNCHANGED <<variant, audio, starting, rafPending, shots>>

\* the callback incrementCombo scheduled
ComboTimeout ==
    /\ hud.comboTimer # 0
    /\ TimerMayFire(hud.comboTimer)
    /\ now' = Later(hud.comboTimer)
    /\ hud' = [resetCombo(hud) EXCEPT !.comboTimer = 0]
    /\ cues' = << >>
    /\ lastShot' = NoShot
    /\ hits' = << >>
    /\ lastUpdate' = NoUpdate
    /\ UNCHANGED <<variant, audio, clock, visible, starting, state, alienGrid, shootingSystem,
                   spawnTimers, gameOverTimer, rafPending, shownStats,
                   lastSpawn, session, shots>>

\* the callback showGameOver scheduled: the game-over screen appears
GameOverScreenTimeout ==
    /\ gameOverTimer # 0
    /\ TimerMayFire(gameOverTimer)
    /\ now' = Later(gameOverTimer)
    /\ gameOverTimer' = 0
    /\ visible' = visible \cup {"gameOver"}
    /\ cues' = << >>
    /\ lastShot' = NoShot
    /\ hits' = << >>
    /\ lastUpdate' = NoUpdate
    /\ UNCHANGED <<variant, audio, clock, starting, state, alienGrid, shootingSystem, hud,
                   spawnTimers, rafPending, shownStats,
                   lastSpawn, session, shots>>

\* click on the restart button of the game-over screen
Restart ==
    /\ "gameOver" \in visible
    /\ \E w \in {restartGame(World)} : Commit(w)
    /\ lastShot' = NoShot
    /\ UNCHANGED <<variant, audio, now, starting, rafPending, shots>>

PlayNext ==
    \/ Frame
    \/ Click
    \/ SpawnTimeout
    \/ ComboTimeout
    \/ GameOverScreenTimeout
    \/ Restart

Next ==
    \/ StartClick
    \/ StartFails
    \/ StartSucceeds
    \/ PlayNext

Spec == Init /\ [][Next]_vars

-----------------------------------------------------------------------------
(* Mid-game snapshots of the cycle-counted variant.  A sweep takes some 500  *)
(* ticks and a wave 55 kills to clear, so the states in which a formation    *)
(* reverses, lands or is cleared are entered here directly: each snapshot is *)
(* a state a game reaches from startGame.  Only differences of clock values  *)
(* matter, so the clock is read from an origin that puts the snapshot at     *)
(* SnapshotTime.                                                             *)
(*  - NearLimit(d, lives): nobody has fired; the formation is two ticks      *)
(*    short of the horizontal limit of its sweep number d (500 * d + 498     *)
(*    ticks after the spawn), 3 - lives ground events have happened.         *)
(*  - LastAliens(S): first sweep of wave 1; every entity but those of S has  *)
(*    been destroyed in row-major order under continuous fire (each kill     *)
(*    within the combo window of the one before), the last kill more than    *)
(*    comboTimeout ago, and a projectile fired straight ahead 37 frames ago  *)
(*    is two ticks short of cell <<4, 9>>.                                   *)
(*  - ChainOpen(g): as LastAliens({<<4, 9>>, <<4, 10>>}), but the 53rd kill  *)
(*    (cell <<4, 8>>) came alone after a pause longer than comboTimeout and  *)
(*    its combo timer is still pending, due g frames after the snapshot.     *)

AllCells == (0 .. rows - 1) \X (0 .. cols - 1)

\* HUD score after the cells of K were destroyed in row-major order in one
\* combo: addScore multiplies the k-th kill by max(1, min(k - 1, maxCombo))
ComboScore(K) ==
    LET order == SelectSeq([k \in 1 .. rows * cols |-> CellAt(k)],
                           LAMBDA c : c \in K)
        mult(k) == IF k - 1 < 1 THEN 1 ELSE IF k - 1 < maxCombo THEN k - 1 ELSE maxCombo
        sum[k \in 0 .. Len(order)] ==
            IF k = 0 THEN 0 ELSE sum[k - 1] + pointsOf(order[k]) * mult(k)
    IN sum[Len(order)]

SnapshotTime == MaxNow - MidGameFrames * FrameMs

NearLimit(d, lives) ==
    LET mag == horizontalLimit - 2 * 200
    IN [grid |-> [aliensLength |-> rows, dead |-> {},
                  group |-> [isNull |-> FALSE,
                             x |-> IF d % 2 = 0 THEN 0 - mag ELSE mag - horizontalLimit,
                             y |-> 0 - d * 10000],
                  direction |-> IF d % 2 = 0 THEN 0 - 1 ELSE 1,
                  moveSpeed |-> 200, speedMultiplier |-> 100,
                  currentHorizontalPosition |-> IF d % 2 = 0 THEN 0 - mag ELSE mag,
                  dropCount |-> d],
        wave |-> 1, lives |-> lives, score |-> 0, killed |-> 0,
        shooting |-> ConstructedShooting,
        comboCount |-> 0, comboTimer |-> 0,
        spawnedBy |-> IF lives = maxLives THEN "start" ELSE "ground",
        spawns |-> 1 + maxLives - lives]

LastAliens(S) ==
    LET speed == 200 + 4 * (fullCount - Cardinality(S))
        fired == SnapshotTime - 37 * FrameMs
    IN [grid |-> [aliensLength |-> rows, dead |-> AllCells \ S,
                  group |-> [isNull |-> FALSE, x |-> 2 * speed - 96000, y |-> 0],
                  direction |-> 0 - 1,
                  moveSpeed |-> speed, speedMultiplier |-> 100,
                  currentHorizontalPosition |-> 2 * speed - 96000,
                  dropCount |-> 0],
        wave |-> 1, lives |-> maxLives, score |-> ComboScore(AllCells \ S),
        killed |-> fullCount - Cardinality(S),
        shooting |-> [lastShotTime |-> fired,
                      projectiles |-> << [x |-> 0, y |-> 0 - 2000, z |-> 0 - 140000,
                                          dir |-> <<0, 0, 0 - 10000>>,
                                          createdAt |-> fired, isActive |-> TRUE] >>],
        comboCount |-> 0, comboTimer |-> 0,
        spawnedBy |-> "start", spawns |-> 1]

ChainOpen(g) ==
    LET S == {<<4, 9>>, <<4, 10>>}
        last == <<4, 8>>
    IN [LastAliens(S) EXCEPT
          !.score = ComboScore((AllCells \ S) \ {last}) + pointsOf(last),
          !.comboCount = 1,
          !.comboTimer = SnapshotTime + g * FrameMs]

\* two projectiles in flight that reach entities of different rows in the same
\* tick, two ticks after the snapshot: the older one, fired upwards
\* (direction (0, 0.2961, -0.9552)), has been advanced 38 times and reaches
\* <<0, 9>>; the newer one, fired straight cooldown ms later, has been advanced
\* 37 times and reaches <<4, 9>>; the combo of the last kill is still open
TwoInFlight ==
    LET S == {<<0, 9>>, <<4, 9>>}
        last == <<4, 8>>
        up == <<0, 2961, 0 - 9552>>
        first == newProjectile(up, SnapshotTime - 1850)
        second == newProjectile(<<0, 0, 0 - 10000>>, SnapshotTime - 1850 + cooldown)
    IN [LastAliens(S) EXCEPT
          !.score = ComboScore((AllCells \ S) \ {last}) + pointsOf(last),
          !.comboCount = 1,
          !.comboTimer = SnapshotTime + 3 * FrameMs,
          !.shooting =
             [lastShotTime |-> second.createdAt,
              projectiles |->
                << [first EXCEPT
                      !.y = @ + 38 * ((up[2] * projectileSpeed) \div Unit),
                      !.z = @ + 38 * ((up[3] * projectileSpeed) \div Unit)],
                   [second EXCEPT !.z = @ - 37 * projectileSpeed] >>]]

\* the full first wave 38 ticks after a shot fired at the start of the game
\* towards the top row (direction (-0.04, 0.296, -0.9544)): the projectile
\* reaches <<0, 5>> two ticks later
FirstWaveShot ==
    LET aim == <<0 - 400, 2960, 0 - 9544>>
        fired == SnapshotTime - 38 * FrameMs
        p == newProjectile(aim, fired)
        g == spawnWave(ConstructedGrid, 1)
        x == 39 * g.direction * g.moveSpeed
    IN [grid |-> [g EXCEPT !.group.x = x, !.currentHorizontalPosition = x],
        wave |-> 1, lives |-> maxLives, score |-> 0, killed |-> 0,
        shooting |-> [lastShotTime |-> fired,
                      projectiles |->
                        << [p EXCEPT
                              !.x = @ + 38 * ((aim[1] * projectileSpeed) \div Unit),
                              !.y = @ + 38 * ((aim[2] * projectileSpeed) \div Unit),
                              !.z = @ + 38 * ((aim[3] * projectileSpeed) \div Unit)] >>],
        comboCount |-> 0, comboTimer |-> 0,
        spawnedBy |-> "start", spawns |-> 1]

\* the last entity <<0, 9>> of a formation that has descended maxDrops - 1
\* times and is five ticks from the end of its last sweep; a projectile fired
\* downwards to the right (direction (0.3778, -0.4705, -0.7974)) has been
\* advanced 47 times and reaches the entity two ticks later
LastAlienLow ==
    LET S == {<<0, 9>>}
        aim == <<3778, 0 - 4705, 0 - 7974>>
        fired == SnapshotTime - 800
        p == newProjectile(aim, fired)
        base == LastAliens(S)
        chp == horizontalLimit - 5 * base.grid.moveSpeed
    IN [base EXCEPT
          !.grid.dropCount = maxDrops - 1,
          !.grid.direction = 1,
          !.grid.currentHorizontalPosition = chp,
          !.grid.group = [isNull |-> FALSE, x |-> chp - horizontalLimit,
                          y |-> 0 - (maxDrops - 1) * dropDistance],
          !.shooting =
             [lastShotTime |-> fired,
              projectiles |->
                << [p EXCEPT
                      !.x = @ + 47 * ((aim[1] * projectileSpeed) \div Unit),
                      !.y = @ + 47 * ((aim[2] * projectileSpeed) \div Unit),
                      !.z = @ + 47 * ((aim[3] * projectileSpeed) \div Unit)] >>]]

\* the second wave, spawned by the timeout that followed the clearing of the
\* first, two ticks from its last descent
SecondWaveNearLimit ==
    LET g == spawnWave(ConstructedGrid, 2)
        chp == horizontalLimit - 2 * g.moveSpeed
    IN [grid |-> [g EXCEPT !.direction = 1,
                           !.currentHorizontalPosition = chp,
                           !.dropCount = maxDrops - 1,
                           !.group = [isNull |-> FALSE, x |-> chp - horizontalLimit,
                                      y |-> 0 - (maxDrops - 1) * dropDistance]],
        wave |-> 2, lives |-> maxLives, score |-> ComboScore(AllCells),
        killed |-> fullCount,
        shooting |-> ConstructedShooting,
        comboCount |-> 0, comboTimer |-> 0,
        spawnedBy |-> "timeout", spawns |-> 2]

Snapshots ==
    {NearLimit(0, 3), NearLimit(1, 3), NearLimit(9, 3), NearLimit(9, 1)}
      \cup {LastAliens({<<4, 9>>}), LastAliens({<<4, 9>>, <<4, 10>>})}
      \cup {ChainOpen(1), ChainOpen(2), ChainOpen(3)}
      \cup {TwoInFlight, FirstWaveShot, LastAlienLow, SecondWaveNearLimit}

InitMidGame ==
    /\ variant = "cycle"
    /\ audio = "ready"
    /\ now = SnapshotTime
    /\ clock = SnapshotTime
    /\ starting = FALSE
    /\ visible = {}
    /\ spawnTimers = << >>
    /\ gameOverTimer = 0
    /\ rafPending = 1
    /\ shownStats = [score |-> 0, wave |-> 0, aliensKilled |-> 0]
    /\ cues = << >>
    /\ hits = << >>
    /\ lastUpdate = NoUpdate
    /\ lastShot = NoShot
    /\ session = 1
    /\ shots = 0
    /\ \E s \in Snapshots :
          /\ alienGrid = s.grid
          /\ shootingSystem = s.shooting
          /\ state = [isPlaying |-> TRUE, wave |-> s.wave, aliensKilled |-> s.killed]
          /\ hud = [targetScore |-> s.score, currentWave |-> s.wave,
                    currentLives |-> s.lives, comboCount |-> s.comboCount,
                    comboTimer |-> s.comboTimer,
                    hidden |-> FALSE]
          /\ lastSpawn = [by |-> s.spawnedBy, scheduledIn |-> 1, session |-> 1,
                          n |-> s.spawns]

SpecMidGame == InitMidGame /\ [][PlayNext]_vars

-----------------------------------------------------------------------------
(* Claims *)

\* C1: each wave clear raises the wave number by exactly 1: the tick in which
\* the live count of a spawned formation reaches 0 adds 1 to state.wave, and
\* from then until the next formation is spawned state.wave does not change.
C1_WaveGrowsByOnePerClear ==
    [][ /\ ( /\ alienGrid.aliensLength > 0
            /\ ~isWaveCleared(alienGrid)
            /\ alienGrid'.aliensLength > 0
            /\ isWaveCleared(alienGrid')
            /\ lastSpawn' = lastSpawn )
          => state'.wave = state.wave + 1
        /\ ( /\ alienGrid.aliensLength > 0
            /\ isWaveCleared(alienGrid)
            /\ lastSpawn' = lastSpawn )
          => state'.wave = state.wave ]_vars

\* C2: once restartGame() has run, the game is playing with ticking active:
\* whenever a restarted game is playing, a gameLoop frame callback is pending
\* (only a pending callback can run AlienGrid.update again).
C2_RestartResumesTicking ==
    (state.isPlaying /\ lastSpawn.by \in {"restart", "timeout"} /\ session >= 2)
      => rafPending > 0

\* C3: the game stops playing exactly in the tick whose ground event takes
\* lives from 1 to 0, never while lives remain; that tick leaves isPlaying
\* false, no formation entities and no projectiles.
C3_GameOverAtLastLife ==
    /\ [](state.isPlaying => hud.currentLives > 0)
    /\ []((~state.isPlaying /\ session >= 1) => hud.currentLives = 0)
    /\ [][ (state.isPlaying /\ ~state'.isPlaying)
            => /\ lastUpdate'.hitGround
               /\ hud.currentLives = 1
               /\ hud'.currentLives = 0
               /\ alienGrid'.aliensLength = 0
               /\ alienGrid'.group.isNull
               /\ shootingSystem'.projectiles = << >> ]_vars

C3_Witness ==
    /\ ~state.isPlaying
    /\ hud.currentLives = 0
    /\ lastUpdate.hitGround
    /\ lastSpawn.n = 3
    /\ alienGrid.aliensLength = 0
    /\ shownStats.wave = 1

\* C4: from the moment gameOver() has executed until restart, the wave number,
\* kill counter, score, lives, formation and projectile list stay as gameOver()
\* left them (the values it handed to showGameOver, lives 0, nothing on the
\* field).
C4_FrozenAfterGameOver ==
    (~state.isPlaying /\ session >= 1)
      => /\ state.wave = shownStats.wave
         /\ state.aliensKilled = shownStats.aliensKilled
         /\ hud.targetScore = shownStats.score
         /\ hud.currentLives = 0
         /\ alienGrid.aliensLength = 0
         /\ shootingSystem.projectiles = << >>

\* C5: no target appears more than once in the list one ShootingSystem.update
\* call returns.
C5_NoTargetHitTwice ==
    \A i, j \in 1 .. Len(hits) : i # j => hits[i] # hits[j]

\* C6: between two spawns the formation's moveSpeed never decreases.
C6_SpeedNeverDecreases ==
    [][ ( /\ lastSpawn' = lastSpawn
          /\ alienGrid.aliensLength > 0
          /\ alienGrid'.aliensLength > 0 )
        => alienGrid'.moveSpeed >= alienGrid.moveSpeed ]_vars

\* C7: an update call that reverses inverts the direction, lowers the group
\* by exactly dropDistance and leaves moveSpeed strictly greater than before.
C7_ReversalDropsAndSpeedsUp ==
    lastUpdate.reversed
      => /\ lastUpdate.dirAfter = 0 - lastUpdate.dirBefore
         /\ lastUpdate.yAfter = lastUpdate.yBefore - dropDistance
         /\ lastUpdate.speedAfter > lastUpdate.speedBefore

\* C8: a next-wave callback spawns a formation only in the game session that
\* scheduled it.
C8_NoStaleSpawn ==
    lastSpawn.by = "timeout" => lastSpawn.scheduledIn = lastSpawn.session

\* C9: a next-wave callback that fires while the game is not playing spawns
\* nothing, and while the game is over the formation stays empty.
C9_NoSpawnWhileNotPlaying ==
    /\ []((~state.isPlaying /\ session >= 1)
            => (alienGrid.aliensLength = 0 /\ alienGrid.group.isNull))
    /\ [][ (Len(spawnTimers') < Len(spawnTimers) /\ ~state.isPlaying)
            => (alienGrid' = alienGrid /\ lastSpawn' = lastSpawn) ]_vars

\* a callback scheduled by the game-over tick has fired with the game over
C9_Witness ==
    /\ ~state.isPlaying
    /\ "gameOver" \in visible
    /\ state.wave > shownStats.wave
    /\ spawnTimers = << >>
    /\ alienGrid.aliensLength = 0

\* C10: a shoot() call less than cooldown ms after the last successful shot
\* returns false and changes neither the projectile list nor lastShotTime;
\* any two projectiles in the list were fired at least cooldown ms apart.
C10_CooldownEnforced ==
    /\ [][ (lastShot'.called /\ lastShot'.at - shootingSystem.lastShotTime < cooldown)
            => (~lastShot'.result /\ shootingSystem' = shootingSystem) ]_vars
    /\ [](\A i, j \in 1 .. Len(shootingSystem.projectiles) :
              i < j => shootingSystem.projectiles[j].createdAt
                         - shootingSystem.projectiles[i].createdAt >= cooldown)

\* a call inside the cooldown was rejected and exactly one projectile exists
C10_Witness ==
    /\ lastShot.called
    /\ ~lastShot.result
    /\ lastShot.at - lastShot.lastShotTime < cooldown
    /\ Len(shootingSystem.projectiles) = 1

\* C11: destroyAlien on an entity that is already dead returns 0 and leaves
\* the grid (liveness flags, live count, moveSpeed) as it was; a tick that
\* hits the same live entity twice therefore scores it once and kills it once.
C11_DestroyDeadIsNoOp ==
    /\ [](\A c \in alienGrid.dead :
            destroyAlien(alienGrid, c) = [grid |-> alienGrid, points |-> 0])
    /\ [][ ( /\ Len(hits') = 2
             /\ hits'[1] = hits'[2]
             /\ lastSpawn' = lastSpawn
             /\ hud.comboCount = 0 )
           => /\ hud'.targetScore = hud.targetScore + pointsOf(hits'[1])
              /\ alienGrid'.dead = alienGrid.dead \cup {hits'[1]}
              /\ hits'[1] \notin alienGrid.dead
              /\ alienGrid'.moveSpeed
                   = killSpeed(alienGrid', getAliveCount(alienGrid')) ]_vars

\* the second of two hits on one entity has called destroyAlien on a dead one
C11_Witness ==
    /\ Len(hits) = 2
    /\ hits[1] = hits[2]
    /\ alienGrid.dead = {hits[1]}
    /\ state.aliensKilled = 2
    /\ hud.targetScore = pointsOf(hits[1])

\* C12: a projectile that hits nothing is removed by the first update call at
\* which now - createdAt >= projectileLifetime and by none before: after an
\* update every projectile left in the list is younger than projectileLifetime,
\* and an update that removes more projectiles than it reports hits has met
\* one that old.
C12_ExpiresAtLifetime ==
    /\ [](lastUpdate.called
            => \A i \in 1 .. Len(shootingSystem.projectiles) :
                  now - shootingSystem.projectiles[i].createdAt < projectileLifetime)
    /\ [][ ( /\ lastUpdate'.called
             /\ state'.isPlaying
             /\ Len(shootingSystem.projectiles) - Len(shootingSystem'.projectiles)
                  > Len(hits') )
           => \E i \in 1 .. Len(shootingSystem.projectiles) :
                 now' - shootingSystem.projectiles[i].createdAt >= projectileLifetime ]_vars

\* C13: a hit adds points * min(c, maxCombo) to the score, c being the combo
\* count after the increment for that hit (checked on the ticks with one hit).
C13_ScoreUsesComboAfterIncrement ==
    [][ (lastUpdate'.called /\ Len(hits') = 1)
        => hud'.targetScore - hud.targetScore
             = pointsOf(hits'[1])
                 * (IF hud'.comboCount < maxCombo THEN hud'.comboCount ELSE maxCombo) ]_vars

\* C14: a hit that comes comboTimeout ms or more after the previous hit is
\* counted from a combo of 0 (the count is 1 after it); a hit that comes
\* sooner carries the count over and increments it.
C14_ComboWindow ==
    [][ (lastUpdate'.called /\ Len(hits') = 1 /\ hud.comboTimer # 0)
        => IF now' >= hud.comboTimer
           THEN hud'.comboCount = 1
           ELSE hud'.comboCount = hud.comboCount + 1 ]_vars

\* C15: within one game session the score (HUD.targetScore) never decreases.
C15_ScoreNeverDecreases ==
    [][ session' = session => hud'.targetScore >= hud.targetScore ]_vars

\* a ground event (here the last one) has come after points were scored
C15_Witness ==
    /\ hud.targetScore > 0
    /\ lastUpdate.hitGround
    /\ hud.currentLives = 0
    /\ shownStats.score = hud.targetScore

\* C16: lives stay within 0 .. maxLives, and loseLife at 0 lives leaves 0.
C16_LivesInRange ==
    /\ hud.currentLives \in 0 .. maxLives
    /\ hud.currentLives = 0 => loseLife(hud) = hud

C16_Witness ==
    /\ hud.currentLives = 0
    /\ lastUpdate.hitGround
    /\ lastSpawn.n = maxLives

\* C17: a ground event with more than one life left takes exactly one life,
\* keeps the wave number and the game playing, and replaces the formation by
\* a fresh full grid (every entity alive but those hit later in the same tick)
\* with direction, horizontal offset and descent counter at their initial
\* values.
C17_GroundEventRespawns ==
    [][ (lastUpdate'.hitGround /\ hud.currentLives > 1)
        => /\ hud'.currentLives = hud.currentLives - 1
           /\ state'.wave = state.wave
           /\ state'.isPlaying
           /\ lastSpawn'.by = "ground"
           /\ lastSpawn'.n = lastSpawn.n + 1
           /\ alienGrid'.aliensLength = rows
           /\ alienGrid'.dead \subseteq {hits'[i] : i \in 1 .. Len(hits')}
           /\ getAliveCount(alienGrid') = fullCount - Cardinality(alienGrid'.dead)
           /\ alienGrid'.group = [isNull |-> FALSE, x |-> 0, y |-> 0]
           /\ alienGrid'.direction = initialDirection
           /\ alienGrid'.currentHorizontalPosition = 0
           /\ alienGrid'.dropCount = 0 ]_vars

\* the formation landed with three lives and was respawned in full
C17_Witness ==
    /\ lastUpdate.hitGround
    /\ lastUpdate.dropBefore = maxDrops
    /\ state.isPlaying
    /\ hud.currentLives = 2
    /\ lastSpawn.by = "ground"
    /\ getAliveCount(alienGrid) = fullCount

\* C18: in the cycle-counted AlienGrid dropCount stays within 0 .. maxDrops,
\* and update returns true exactly when a formation exists and dropCount had
\* already reached maxDrops before the call.
C18_DropCountBounded ==
    variant = "cycle"
      => /\ alienGrid.dropCount \in 0 .. maxDrops
         /\ lastUpdate.called
              => (lastUpdate.hitGround
                    <=> (lastUpdate.existed /\ lastUpdate.dropBefore = maxDrops))

\* the tenth descent has been counted and the next update reported it
C18_Witness ==
    /\ variant = "cycle"
    /\ lastUpdate.hitGround
    /\ lastUpdate.existed
    /\ lastUpdate.dropBefore = maxDrops
    /\ lastUpdate.xBefore = lastUpdate.xAfter

\* C19: a game is started (Playing, tick loop running) only with the camera
\* granted and the audio initialised; a startup in which either failed ends on
\* the error screen with isPlaying false and no gameLoop call.
C19_StartNeedsCameraAndAudio ==
    /\ session >= 1 => audio = "ready"
    /\ audio = "failed"
         => (~state.isPlaying /\ rafPending = 0 /\ "error" \in visible)
    /\ "error" \in visible
         => (~state.isPlaying /\ rafPending = 0 /\ session = 0)

\* C20: the formation, the projectile list and the score change only in a
\* handler that runs a gameLoop tick.
C20_ChangesOnlyInTick ==
    [][ ( \/ alienGrid' # alienGrid
          \/ shootingSystem'.projectiles # shootingSystem.projectiles
          \/ hud'.targetScore # hud.targetScore )
        => lastUpdate'.called ]_vars

\* C21: on a tick without reversal update moves the formation horizontally
\* by direction * moveSpeed * deltaTime (deltaTime in seconds, the time since
\* the previous tick).
C21_FormationMoveScalesWithDeltaTime ==
    (lastUpdate.called /\ lastUpdate.existed
       /\ ~lastUpdate.reversed /\ ~lastUpdate.hitGround)
      => (lastUpdate.xAfter - lastUpdate.xBefore) * 1000
           = lastUpdate.dirBefore * lastUpdate.speedBefore * lastUpdate.deltaTime

\* C22: a tick advances every active projectile that stays in flight by
\* projectileSpeed * deltaTime along its direction (deltaTime in seconds), so
\* the distance covered over an interval does not depend on how the interval
\* is split into ticks.
C22_ProjectileMoveScalesWithDeltaTime ==
    [][lastUpdate'.called =>
         \A i \in 1 .. Len(shootingSystem'.projectiles) :
           \A j \in 1 .. Len(shootingSystem.projectiles) :
             LET q == shootingSystem'.projectiles[i]
                 p == shootingSystem.projectiles[j]
             IN q.createdAt = p.createdAt =>
                  /\ (q.x - p.x) * 1000
                       = ((p.dir[1] * projectileSpeed) \div Unit) * lastUpdate'.deltaTime
                  /\ (q.y - p.y) * 1000
                       = ((p.dir[2] * projectileSpeed) \div Unit) * lastUpdate'.deltaTime
                  /\ (q.z - p.z) * 1000
                       = ((p.dir[3] * projectileSpeed) \div Unit) * lastUpdate'.deltaTime]_vars

C24_ScoreIndependentOfOrder ==
    [][(lastUpdate'.called /\ ~lastUpdate'.hitGround /\ rafPending = 1)
         => hud'.targetScore
              = processHits(World, Reverse(hits'), now').hud.targetScore]_vars

\* C25: spawnWave(1) creates 55 live entities worth 30 points in row 0, 20 in
\* rows 1-2 and 10 in rows 3-4; destroying one live row-0 entity of that wave
\* returns 30 and leaves 54 alive (a first kill of the game that is a row-0
\* entity puts the score at 30).
C25_FirstWaveLayout ==
    LET g == spawnWave(alienGrid, 1)
    IN /\ getAliveCount(g) = 55
       /\ \A c \in GridCells(g) :
             /\ isAlive(g, c)
             /\ pointsOf(c) = IF c[1] = 0 THEN 30 ELSE IF c[1] \in {1, 2} THEN 20 ELSE 10
             /\ c[1] = 0 =>
                   /\ destroyAlien(g, c).points = 30
                   /\ getAliveCount(destroyAlien(g, c).grid) = 54
       /\ (lastUpdate.called /\ state.wave = 1 /\ state.aliensKilled = 1
             /\ Len(hits) = 1 /\ hits[1][1] = 0)
            => (hud.targetScore = 30 /\ getAliveCount(alienGrid) = 54)

C25_Witness ==
    /\ lastUpdate.called
    /\ state.wave = 1
    /\ hits = << <<0, 5>> >>
    /\ hud.targetScore = 30
    /\ getAliveCount(alienGrid) = 54

\* C26: once spawnWave has created the formation (rows x cols live entities),
\* isWaveCleared() is true exactly when every one of them has been destroyed.
C26_ClearedIffAllDestroyed ==
    alienGrid.aliensLength > 0 =>
      /\ GridCells(alienGrid) = AllCells
      /\ isWaveCleared(alienGrid) <=> (\A c \in AllCells : c \in alienGrid.dead)

C26_Witness ==
    /\ lastUpdate.called
    /\ hits # << >>
    /\ alienGrid.aliensLength > 0
    /\ alienGrid.dead = AllCells
    /\ isWaveCleared(alienGrid)

\* C27: immediately after spawnWave(w), whatever the prior state of the grid,
\* moveSpeed = baseSpeed * (1 + 0.15 * (w - 1)), the direction is the initial
\* one, the horizontal offset is 0, dropCount is 0 and all 55 entities are
\* live.  Checked for spawnWave applied to the grid of every reachable state,
\* and on the steps of the handlers that end with the spawn (the wave timeout
\* and the restart).
C27_SpawnResetsGrid ==
    [][LET fresh(g, w) ==
             /\ g.moveSpeed = (baseSpeed * (100 + 15 * (w - 1))) \div 100
             /\ g.direction = initialDirection
             /\ g.currentHorizontalPosition = 0
             /\ ~g.group.isNull /\ g.group.x = 0
             /\ g.dropCount = 0
             /\ getAliveCount(g) = 55
             /\ getAliveCells(g) = AllCells
       IN /\ \A w \in 1 .. MaxWaveChecked : fresh(spawnWave(alienGrid', w), w)
          /\ (lastSpawn' # lastSpawn /\ lastSpawn'.by \in {"timeout", "restart"})
               => fresh(alienGrid', state'.wave)]_vars

C27_Witness ==
    /\ lastSpawn.by = "timeout"
    /\ ~lastUpdate.called
    /\ state.wave > 1
    /\ alienGrid.moveSpeed = 200 + 30 * (state.wave - 1)
    /\ alienGrid.direction = 0 - 1
    /\ alienGrid.currentHorizontalPosition = 0
    /\ alienGrid.dropCount = 0
    /\ getAliveCount(alienGrid) = 55

\* C28: clear() can be called when there is no formation, and it is
\* idempotent: from any state of the grid, clear(); clear() leaves the state a
\* single clear() leaves: no entities, no group, default direction, base speed,
\* offset 0, dropCount 0.
C28_ClearIdempotent ==
    LET once == clear(alienGrid)
    IN /\ clear(once) = once
       /\ once.aliensLength = 0 /\ getAliveCount(once) = 0
       /\ once.group = NoGroup
       /\ once.direction = initialDirection
       /\ once.moveSpeed = baseSpeed
       /\ once.currentHorizontalPosition = 0
       /\ once.dropCount = 0
       /\ alienGrid.group.isNull => clear(alienGrid) = alienGrid

\* game over has cleared the grid and the restart handler, which clears it
\* again before spawning, can run
C28_Witness ==
    /\ alienGrid.group.isNull
    /\ ~state.isPlaying
    /\ "gameOver" \in visible
    /\ alienGrid = clear(alienGrid)

\* C29: an entity's liveness flag only goes from true to false: on every
\* step that spawns no formation and keeps the current one, every destroyed
\* entity stays destroyed and the live count does not increase; applying
\* destroyAlien to any entity never revives one.
C29_LivenessOneWay ==
    [][/\ (lastSpawn' = lastSpawn /\ alienGrid'.aliensLength > 0)
            => /\ alienGrid.dead \subseteq alienGrid'.dead
               /\ getAliveCount(alienGrid') <= getAliveCount(alienGrid)
       /\ lastSpawn' = lastSpawn
            => getAliveCount(alienGrid') <= getAliveCount(alienGrid)
       /\ \A c \in AllCells :
             alienGrid'.dead \subseteq destroyAlien(alienGrid', c).grid.dead]_vars

\* a tick has destroyed an entity of the current formation, others are live
C29_Witness ==
    /\ lastUpdate.called
    /\ hits # << >>
    /\ alienGrid.aliensLength > 0
    /\ getAliveCount(alienGrid) < 55
    /\ getAliveCount(alienGrid) > 0

\* C30: a fire input creates a projectile only while the game is playing,
\* and the handler plays the 'shoot' cue if and only if shoot() returned true
\* for that input (and then exactly one projectile was added).
C30_ShootCueIffShot ==
    [][LET old == shootingSystem.projectiles
           new == shootingSystem'.projectiles
           cued == \E i \in 1 .. Len(cues') : cues'[i] = "shoot"
       IN /\ Len(new) > Len(old)
               => (state.isPlaying /\ lastShot'.called /\ lastShot'.result)
          /\ lastShot'.called
               => /\ state.isPlaying
                  /\ cued <=> lastShot'.result
                  /\ lastShot'.result <=> Len(new) = Len(old) + 1
                  /\ ~lastShot'.result => new = old
          /\ ~lastShot'.called => ~cued]_vars

C30_Witness ==
    /\ lastShot.called /\ lastShot.result
    /\ state.isPlaying
    /\ cues = <<"shoot">>
    /\ shootingSystem.projectiles # << >>
    /\ shootingSystem.projectiles[Len(shootingSystem.projectiles)].createdAt = now

C32_NoTwoReversalsInARow ==
    [][(variant = "boundary"
          /\ lastUpdate.called /\ lastUpdate.existed /\ lastUpdate.reversed
          /\ lastUpdate'.called /\ lastUpdate'.existed
          /\ lastSpawn' = lastSpawn)
         => ~lastUpdate'.reversed]_vars

\* C33: no life is lost on a tick that starts with zero live entities: while
\* a cleared wave waits for the next spawn, update returns no ground event.
C33_NoGroundEventWhenCleared ==
    [][(lastUpdate'.called /\ state.isPlaying /\ getAliveCount(alienGrid) = 0
          /\ rafPending = 1)
         => /\ ~lastUpdate'.hitGround
            /\ hud'.currentLives = hud.currentLives]_vars

\* C34: within a session the kill counter grows by exactly one per entity
\* whose liveness went from true to false: on every step that keeps the
\* session and the formation, aliensKilled grows by the number of entities
\* that were live before the step and are not after it.
C34_KillCounterCountsEntities ==
    [][(session' = session /\ lastSpawn' = lastSpawn /\ state'.isPlaying
          /\ alienGrid'.aliensLength > 0)
         => state'.aliensKilled - state.aliensKilled
              = getAliveCount(alienGrid) - getAliveCount(alienGrid')]_vars

-----------------------------------------------------------------------------
(* A game played without fire inputs: the state startGame leaves, then one   *)
(* display frame after the other.  requestAnimationFrame keeps calling back  *)
(* while the page is shown, hence the weak fairness of the frame.            *)

JustStarted ==
    startGameBody(
      [state |-> [isPlaying |-> FALSE, wave |-> 1, aliensKilled |-> 0],
       alienGrid |-> ConstructedGrid, shootingSystem |-> ConstructedShooting,
       hud |-> ConstructedHud, spawnTimers |-> << >>, gameOverTimer |-> 0,
       visible |-> {"splash", "loading"},
       shownStats |-> [score |-> 0, wave |-> 0, aliensKilled |-> 0],
       cues |-> << >>, hits |-> << >>, lastUpdate |-> NoUpdate,
       lastSpawn |-> [by |-> "none", scheduledIn |-> 0, session |-> 0, n |-> 0],
       raf |-> 0, session |-> 0, clock |-> 0],
      cooldown)

InitNoFire ==
    /\ variant \in {"boundary", "cycle"}
    /\ audio \in {"ready", "failed"}
    /\ now = cooldown
    /\ starting = FALSE
    /\ shots = 0
    /\ lastShot = NoShot
    /\ \E w \in {JustStarted} :
         /\ state = w.state
         /\ alienGrid = w.alienGrid
         /\ shootingSystem = w.shootingSystem
         /\ hud = w.hud
         /\ spawnTimers = w.spawnTimers
         /\ gameOverTimer = w.gameOverTimer
         /\ visible = w.visible
         /\ shownStats = w.shownStats
         /\ cues = w.cues
         /\ hits = w.hits
         /\ lastUpdate = w.lastUpdate
         /\ lastSpawn = w.lastSpawn
         /\ session = w.session
         /\ clock = w.clock
         /\ rafPending = w.raf

FrameNoFire ==
    /\ rafPending > 0
    /\ now + FrameMs <= MaxLiveNow
    /\ FrameStep

\* the part of FrameNoFire that decides whether a frame can happen and that
\* one has happened: FrameStep is defined in every state, so FrameNoFire is
\* enabled exactly when FrameDue is, and the steps of SpecNoFire that are
\* FrameDue steps are its FrameNoFire steps
FrameDue ==
    /\ rafPending > 0
    /\ now + FrameMs <= MaxLiveNow
    /\ now' = now + FrameMs

SpecNoFire == InitNoFire /\ [][FrameNoFire]_vars /\ WF_now(FrameDue)

\* C35: if ticks keep running and no projectile ever hits, the game reaches
\* GameOver: every formation ends in a ground event, and the third ground
\* event (the third formation, no life left) ends the game.
C35_EventuallyGameOver ==
    /\ <>(~state.isPlaying /\ hud.currentLives = 0 /\ lastSpawn.n = maxLives)
    /\ [](state.isPlaying => <>lastUpdate.hitGround)

C35_Witness ==
    /\ ~state.isPlaying
    /\ lastUpdate.hitGround
    /\ hud.currentLives = 0
    /\ lastSpawn.n = maxLives
    /\ variant = "cycle"

C37_EachProjectileOnce ==
    LET t == now + FrameMs
        targets == getAliveAliens(alienGrid)
        old == shootingSystem.projectiles
        r == shootingUpdate(shootingSystem, alienGrid, targets, t)
        moved == [i \in 1 .. Len(old) |-> moveProjectile(old[i])]
        hit(p) == ~expired(p, t) /\ firstHit(p, alienGrid, targets) # 0
        stays(p) == ~expired(p, t) /\ firstHit(p, alienGrid, targets) = 0
    IN /\ r.ss.projectiles = SelectSeq(moved, stays)
       /\ Len(r.hits) = Cardinality({i \in 1 .. Len(old) : hit(moved[i])})
       /\ \A i \in 1 .. Len(old) :
             hit(moved[i]) =>
               \E k \in 1 .. Len(r.hits) :
                 r.hits[k] = targets[firstHit(moved[i], alienGrid, targets)]

\* a call has removed both projectiles of a list of two, one after the other
C37_Witness ==
    /\ lastUpdate.called
    /\ Len(hits) = 2
    /\ hits[1] # hits[2]
    /\ shootingSystem.projectiles = << >>

\* C38: every hit on a live entity adds at least the entity's point value and
\* at most 5 times its point value to the score, whatever the combo count.
\* Checked for onAlienHit applied to every live entity of every reachable
\* state with every combo count up to MaxComboChecked, and on the ticks that
\* record hits on distinct live entities.
C38_HitScoreBetweenOneAndFiveTimes ==
    [][/\ \A c \in getAliveCells(alienGrid'), k \in 0 .. MaxComboChecked :
             LET w == [World EXCEPT !.alienGrid = alienGrid',
                                    !.hud = [hud' EXCEPT !.comboCount = k]]
                 gain == onAlienHit(w, c, now').hud.targetScore - hud'.targetScore
             IN gain >= pointsOf(c) /\ gain <= 5 * pointsOf(c)
       /\ LET hs == hits'
              total[i \in 0 .. Len(hs)] ==
                  IF i = 0 THEN 0 ELSE total[i - 1] + pointsOf(hs[i])
          IN (/\ lastUpdate'.called /\ hs # << >>
              /\ lastSpawn' = lastSpawn /\ rafPending = 1
              /\ \A i \in 1 .. Len(hs) :
                    /\ isAlive(alienGrid, hs[i])
                    /\ \A j \in 1 .. Len(hs) : i # j => hs[i] # hs[j])
               => /\ hud'.targetScore - hud.targetScore >= total[Len(hs)]
                  /\ hud'.targetScore - hud.targetScore <= 5 * total[Len(hs)]]_vars

\* a hit has been scored with a combo multiplier above 1
C38_Witness ==
    /\ lastUpdate.called
    /\ hits # << >>
    /\ hud.comboCount >= 3
    /\ hud.targetScore > 0

\* C39: the 'waveComplete' cue is played only when a wave has been cleared:
\* the respawn that follows a life loss never plays it.
C39_NoWaveCompleteOnRespawn ==
    [][(lastSpawn' # lastSpawn /\ lastSpawn'.by = "ground")
         => \A i \in 1 .. Len(cues') : cues'[i] # "waveComplete"]_vars

\* C40: in the cycle-counted AlienGrid the formation sweeps horizontalLimit
\* units to each side of its spawn position: a sweep to the left ends with the
\* formation displaced by about -horizontalLimit, a sweep to the right with
\* about +horizontalLimit (to within a tenth of a unit).
C40_SweepsBothSides ==
    (variant = "cycle" /\ lastUpdate.called /\ lastUpdate.existed
       /\ lastUpdate.reversed)
      => /\ lastUpdate.dirBefore = 0 - 1
              => Abs(lastUpdate.xAfter + horizontalLimit) <= Unit \div 10
         /\ lastUpdate.dirBefore = 1
              => Abs(lastUpdate.xAfter - horizontalLimit) <= Unit \div 10

====
